---- MODULE Spec2Model ----
(***************************************************************************)
(* Texter (src/app.py): the tabbed editor's document session, its periodic *)
(* autosave into the temporary directory and the recovery of leftover      *)
(* autosave files at startup.                                              *)
(*                                                                         *)
(* The Tk event loop runs one callback at a time, so every handler is one  *)
(* action, except where the operating system can end the process between   *)
(* two file operations of a handler: the autosave cycle, the recovery at   *)
(* startup and the close of a tab are split at their file operations, and  *)
(* pc says where the running handler stands.  No other handler is enabled  *)
(* unless pc = "idle"; only Kill is.                                       *)
(*                                                                         *)
(* Environment assumptions of the model:                                   *)
(*   - one editor process at a time uses the autosave directory;           *)
(*   - uuid.uuid4() never returns a value it returned before;              *)
(*   - os.remove of an existing autosave file succeeds;                    *)
(*   - opening or writing a file for output may fail, reading an autosave  *)
(*     snapshot during recovery may fail;                                  *)
(*   - the user's own documents are outside the state: a file opened holds *)
(*     any text, a file written is written or the write raises;            *)
(*   - no timer callback runs while a dialog of a handler is open.         *)
(***************************************************************************)
EXTENDS Integers, Sequences, FiniteSets, TLC

(* ------------------------------ bounds -------------------------------- *)
\* how many autosave ids uuid4 hands out over all runs of the editor
MaxIds == 3
\* how many times the autosave timer fires over all runs (time.time() values)
MaxClock == 2
\* how many file operations fail over all runs
MaxFaults == 1

(* ------------------------- program constants -------------------------- *)
AUTOSAVE_PREFIX == "advanced_text_editor_autosave_"
AUTOSAVE_META_EXT == ".meta.json"

\* file_path=None of TabData and of the sidecar's "file_path": null
None == ""

\* texts a user types into a tab
Contents == {"", "hello"}
\* paths the file dialogs can return
Paths == {"/docs/a.txt"}

(* ------------------------------ state --------------------------------- *)
VARIABLES
  pc,          \* position of the process: stopped, scan, prompt, recover,
               \* cleanup, idle, autosave, closing, exited, killed
  tabs,        \* self.tabs in insertion order: [autosave_id, file_path, content, title]
  dir,         \* the files of self.autosave_dir: name -> file
  timers,      \* pending root.after(AUTOSAVE_INTERVAL_MS, ...) callbacks
  uuids,       \* how many uuid4 values have been drawn
  clock,       \* time.time(), counted in autosave intervals
  faults,      \* how many file operations have failed
  to_recover,  \* the (fpath, meta) list of _recover_autosaves_on_startup
  step,        \* where the running handler stands: [i, at], i an index into
               \* tabs or to_recover
  confirms,    \* "Recover files" confirmations issued by this process: their counts
  ev,          \* what the last step did, for the steps the properties speak of:
               \* [op, id, ok], op = "" for every other step; ok is the answer
               \* for op = "exit"
  closed,      \* history: the tabs this process closed: [id, had, clock], had: it
               \* had autosave files, clock: the time of the close
  declined,    \* history: the candidate files as they were when recovery was declined
  fresh,       \* history: an accepted recovery completed and no cycle has begun since
  stable,      \* history: id -> what a cycle wrote as a complete pair, untouched since
  failed,      \* history: the autosave ids for which the running cycle caught an
               \* exception
  before       \* history: the snapshot file of the tab the running cycle is at, as
               \* the cycle found it: [there, data]

vars == <<pc, tabs, dir, timers, uuids, clock, faults, to_recover, step,
          confirms, ev, closed, declined, fresh, stable, failed, before>>

(* ----------------------------- helpers -------------------------------- *)
Empty == [x \in {} |-> x]

Without(f, S) == [x \in DOMAIN f \ S |-> f[x]]

With(f, k, v) == [x \in DOMAIN f \cup {k} |-> IF x = k THEN v ELSE f[x]]

\* a text file and a file holding the JSON text of a dict
TextFile(s) == [kind |-> "text", data |-> s]

JsonFile(d) == [kind |-> "json", obj |-> d]

RECURSIVE LastSlash(_, _)
LastSlash(p, i) == IF i = 0 THEN 0
                   ELSE IF SubSeq(p, i, i) = "/" THEN i ELSE LastSlash(p, i - 1)

basename(p) == SubSeq(p, LastSlash(p, Len(p)) + 1, Len(p))

startswith(s, pre) == Len(s) >= Len(pre) /\ SubSeq(s, 1, Len(pre)) = pre

endswith(s, suf) == Len(s) >= Len(suf) /\ SubSeq(s, Len(s) - Len(suf) + 1, Len(s)) = suf

\* uuid4 handing out one value again and again
uuid4_Repeats(n) == "id" \o ToString(1)

\* the n-th value of uuid.uuid4(): "id1", "id2", ...
uuid4(n) == "id" \o ToString(n)

\* fname/fpath of _autosave_all_tabs and _remove_autosave_file
SnapPath(autosave_id) == AUTOSAVE_PREFIX \o autosave_id \o ".txt"

MetaPath(fpath) == fpath \o AUTOSAVE_META_EXT

\* os.path.basename(fpath)[len(AUTOSAVE_PREFIX):-4]
IdOfPath(fpath) == SubSeq(fpath, Len(AUTOSAVE_PREFIX) + 1, Len(fpath) - 4)

Ev(op, id, ok) == [op |-> op, id |-> id, ok |-> ok]

NoEv == Ev("", "", TRUE)

NoStep == [i |-> 0, at |-> ""]

\* no snapshot file found, or no cycle at a tab
NoFile == [there |-> FALSE, data |-> ""]

Init ==
  /\ pc = "stopped"
  /\ tabs = <<>>
  /\ dir = Empty
  /\ timers = 0
  /\ uuids = 0
  /\ clock = 0
  /\ faults = 0
  /\ to_recover = <<>>
  /\ step = NoStep
  /\ confirms = <<>>
  /\ ev = NoEv
  /\ closed = {}
  /\ declined = Empty
  /\ fresh = FALSE
  /\ stable = Empty
  /\ failed = {}
  /\ before = NoFile

(* --------------------------- tab management --------------------------- *)
\* TabData with the default id drawn once, when the class is defined
TabData_SharedDefault(file_path, autosave_id) ==
  [file_path |-> file_path,
   autosave_id |-> IF autosave_id # None THEN autosave_id ELSE uuid4(1)]

\* TabData.__init__: autosave_id or str(uuid.uuid4())
TabData(file_path, autosave_id) ==
  [file_path |-> file_path,
   autosave_id |-> IF autosave_id # None THEN autosave_id ELSE uuid4(uuids + 1)]

\* TabTitle without the prefix of a recovered tab
TabTitle_NoPrefix(title, recovered) == title

\* the text _create_tab gives the notebook tab
TabTitle(title, recovered) == IF recovered THEN "Recovered - " \o title ELSE title

\* _create_tab: the tab it appends to self.tabs; content is the Text widget's text
\* and title the text of the notebook tab
create_tab(title, content, file_path, recovered, autosave_id) ==
  [autosave_id |-> TabData(file_path, autosave_id).autosave_id,
   file_path |-> file_path,
   content |-> content,
   title |-> TabTitle(title, recovered)]

\* _update_tab_title
update_tab_title(td) ==
  [td EXCEPT !.title = IF td.file_path # None THEN basename(td.file_path) ELSE "Untitled"]

\* the files _remove_autosave_file removes, when they exist
autosave_files_of(td) == {SnapPath(td.autosave_id), MetaPath(SnapPath(td.autosave_id))}

\* _remove_autosave_file forgetting the sidecar
remove_autosave_file_SnapshotOnly(d, td) == Without(d, {SnapPath(td.autosave_id)})

\* _remove_autosave_file
remove_autosave_file(d, td) == Without(d, autosave_files_of(td))

HasSnapshot(id) == SnapPath(id) \in DOMAIN dir

HasPair(id) == SnapPath(id) \in DOMAIN dir \/ MetaPath(SnapPath(id)) \in DOMAIN dir

OpenIds == {tabs[i].autosave_id : i \in 1..Len(tabs)}

Alive == pc \notin {"stopped", "exited", "killed"}

\* a file operation may fail while the budget of failures lasts
MayFail == faults < MaxFaults

\* how a file operation can end: TRUE done, FALSE an exception
Oks == IF MayFail THEN BOOLEAN ELSE {TRUE}

(* ------------------------------ startup ------------------------------- *)
\* Launch with _schedule_autosave called ahead of the recovery
Launch_SchedulesFirst ==
  /\ ~Alive
  /\ uuids < MaxIds
  /\ tabs' = <<create_tab("Untitled", "", None, FALSE, None)>>
  /\ uuids' = uuids + 1
  /\ pc' = "scan"
  /\ timers' = 1
  /\ to_recover' = <<>>
  /\ step' = NoStep
  /\ confirms' = <<>>
  /\ closed' = {}
  /\ ev' = NoEv
  /\ UNCHANGED <<dir, clock, faults, declined, fresh, stable>>
  /\ UNCHANGED <<failed, before>>

\* python app.py: AdvancedEditor.__init__ up to the call of
\* _recover_autosaves_on_startup
Launch ==
  /\ ~Alive
  /\ uuids < MaxIds
  /\ tabs' = <<create_tab("Untitled", "", None, FALSE, None)>>
  /\ uuids' = uuids + 1
  /\ pc' = "scan"
  /\ timers' = 0
  /\ to_recover' = <<>>
  /\ step' = NoStep
  /\ confirms' = <<>>
  /\ closed' = {}
  /\ ev' = NoEv
  /\ UNCHANGED <<dir, clock, faults, declined, fresh, stable>>
  /\ UNCHANGED <<failed, before>>

\* _list_autosave_files: the names os.listdir returns that pass the filter
list_autosave_files ==
  {name \in DOMAIN dir : startswith(name, AUTOSAVE_PREFIX) /\ endswith(name, ".txt")}

\* the orders in which os.listdir can return them
Orders(S) ==
  {o \in [1..Cardinality(S) -> S] : \A i, j \in 1..Cardinality(S) : o[i] = o[j] => i = j}

\* load_meta opening the snapshot instead of the sidecar: it never parses
load_meta_WrongFile(meta_path) == [file_path |-> None, title |-> "Recovered"]

\* the scan loop's json.load of the sidecar, with its except branch
load_meta(meta_path) ==
  IF meta_path \in DOMAIN dir /\ dir[meta_path].kind = "json"
  THEN dir[meta_path].obj
  ELSE [file_path |-> None, title |-> "Recovered"]

\* the candidate the scan loop appends for fpath
candidate(fpath) == [fpath |-> fpath, meta |-> load_meta(MetaPath(fpath))]

\* _recover_autosaves_on_startup up to the confirmation; with no autosave file
\* it returns and __init__ schedules the first autosave
Scan ==
  /\ pc = "scan"
  /\ \E o \in Orders(list_autosave_files) :
       to_recover' = [i \in 1..Len(o) |-> candidate(o[i])]
  /\ IF list_autosave_files = {}
     THEN /\ pc' = "idle"
          /\ timers' = timers + 1
     ELSE /\ pc' = "prompt"
          /\ UNCHANGED timers
  /\ ev' = NoEv
  /\ UNCHANGED <<tabs, dir, uuids, clock, faults, step, confirms, closed,
                 declined, fresh, stable>>
  /\ UNCHANGED <<failed, before>>

\* the files of the candidates, as they are on disk
CandidateFiles ==
  LET names == {to_recover[i].fpath : i \in 1..Len(to_recover)}
               \cup {MetaPath(to_recover[i].fpath) : i \in 1..Len(to_recover)}
  IN  [n \in names \cap DOMAIN dir |-> dir[n]]

\* found_count off by one
found_count_OffByOne(cands) == Len(cands) - 1

\* the count the confirmation reports: len(to_recover)
found_count(cands) == Len(cands)

\* messagebox.askyesno("Recover files", f"Found {len(to_recover)} ..."): on No
\* the handler returns and __init__ schedules the first autosave
Prompt ==
  /\ pc = "prompt"
  /\ confirms' = Append(confirms, found_count(to_recover))
  /\ \E yes \in BOOLEAN :
       IF yes
       THEN /\ pc' = "recover"
            /\ step' = [i |-> 1, at |-> "read"]
            /\ declined' = Empty
            /\ UNCHANGED timers
       ELSE /\ pc' = "idle"
            /\ timers' = timers + 1
            /\ declined' = CandidateFiles
            /\ UNCHANGED step
  /\ to_recover' = IF pc' = "idle" THEN <<>> ELSE to_recover
  /\ ev' = NoEv
  /\ UNCHANGED <<tabs, dir, uuids, clock, faults, closed, fresh, stable>>
  /\ UNCHANGED <<failed, before>>

\* meta_title ignoring the sidecar's title
meta_title_Ignored(meta) == "Recovered"

\* meta.get("title") or "Recovered"
meta_title(meta) == IF meta.title = "" THEN "Recovered" ELSE meta.title

\* read_snapshot dropping what it read
read_snapshot_Dropped(fpath, ok) == ""

\* the recover loop's read of the snapshot, with its except branch
read_snapshot(fpath, ok) == IF ok THEN dir[fpath].data ELSE ""

\* the tab the recover loop creates for candidate c whose snapshot read gave content
recovered_tab(c, content) ==
  create_tab(meta_title(c.meta), content, c.meta.file_path, TRUE, IdOfPath(c.fpath))

\* the recover loop, one candidate: read the snapshot (a read failure gives ""),
\* create the tab
Recover ==
  /\ pc = "recover"
  /\ LET c == to_recover[step.i] IN
     \E ok \in Oks :
       /\ tabs' = Append(tabs, recovered_tab(c, read_snapshot(c.fpath, ok)))
       /\ faults' = IF ok THEN faults ELSE faults + 1
       /\ ev' = Ev("recover", IdOfPath(c.fpath), ok)
  /\ pc' = "cleanup"
  /\ UNCHANGED <<dir, timers, uuids, clock, to_recover, step, confirms,
                 closed, declined, fresh, stable>>
  /\ UNCHANGED <<failed, before>>

\* the recover loop, same candidate: os.remove of the snapshot and of the sidecar
\* when it exists; after the last candidate __init__ schedules the first autosave
Cleanup ==
  /\ pc = "cleanup"
  /\ LET c == to_recover[step.i] IN
       /\ dir' = Without(dir, {c.fpath, MetaPath(c.fpath)})
       /\ stable' = Without(stable, {IdOfPath(c.fpath)})
  /\ IF step.i < Len(to_recover)
     THEN /\ pc' = "recover"
          /\ step' = [i |-> step.i + 1, at |-> "read"]
          /\ UNCHANGED <<timers, fresh>>
     ELSE /\ pc' = "idle"
          /\ step' = NoStep
          /\ timers' = timers + 1
          /\ fresh' = TRUE
  /\ to_recover' = IF pc' = "idle" THEN <<>> ELSE to_recover
  /\ ev' = NoEv
  /\ UNCHANGED <<tabs, uuids, clock, faults, confirms, closed, declined>>
  /\ UNCHANGED <<failed, before>>

(* ------------------------- user-intent handlers ----------------------- *)
\* The tab a handler finds with notebook.select() is the one the user clicked
\* last: an input i of the handler.

\* _new_tab
NewTab ==
  /\ pc = "idle"
  /\ uuids < MaxIds
  /\ tabs' = Append(tabs, create_tab("Untitled", "", None, FALSE, None))
  /\ uuids' = uuids + 1
  /\ ev' = NoEv
  /\ UNCHANGED <<pc, dir, timers, clock, faults, to_recover, step, confirms,
                 closed, declined, fresh, stable>>
  /\ UNCHANGED <<failed, before>>

\* _open_in_new_tab with the path of a file that holds content (a cancelled dialog
\* or a failing read returns before anything changes)
OpenInNewTab ==
  /\ pc = "idle"
  /\ uuids < MaxIds
  /\ \E path \in Paths, content \in Contents :
       tabs' = Append(tabs, create_tab(basename(path), content, path, FALSE, None))
  /\ uuids' = uuids + 1
  /\ ev' = NoEv
  /\ UNCHANGED <<pc, dir, timers, clock, faults, to_recover, step, confirms,
                 closed, declined, fresh, stable>>
  /\ UNCHANGED <<failed, before>>

\* typing into the Text widget of tab i
EditText ==
  /\ pc = "idle"
  /\ \E i \in 1..Len(tabs), c \in Contents :
       /\ c # tabs[i].content
       /\ tabs' = [tabs EXCEPT ![i].content = c]
  /\ ev' = NoEv
  /\ UNCHANGED <<pc, dir, timers, uuids, clock, faults, to_recover, step,
                 confirms, closed, declined, fresh, stable>>
  /\ UNCHANGED <<failed, before>>

\* save_as binding the tab to the path before it writes the file
save_as_PathFirst(i, path, ok) ==
  LET td == tabs[i] IN
  /\ tabs' = [tabs EXCEPT ![i] = [td EXCEPT !.file_path = path]]
  /\ IF ok
     THEN /\ dir' = remove_autosave_file(dir, td)
          /\ stable' = Without(stable, {td.autosave_id})
          /\ UNCHANGED faults
     ELSE /\ faults' = faults + 1
          /\ UNCHANGED <<dir, stable>>
  /\ ev' = Ev("save_as", td.autosave_id, ok)

\* _save_current_tab_as on td = tabs[i], the dialog returning path; _write_file
\* returns (ok) or its exception ends the handler
save_as(i, path, ok) ==
  LET td == tabs[i] IN
  /\ IF ok
     THEN /\ tabs' = [tabs EXCEPT ![i] = update_tab_title([td EXCEPT !.file_path = path])]
          /\ dir' = remove_autosave_file(dir, td)
          /\ stable' = Without(stable, {td.autosave_id})
          /\ UNCHANGED faults
     ELSE /\ faults' = faults + 1
          /\ UNCHANGED <<tabs, dir, stable>>
  /\ ev' = Ev("save_as", td.autosave_id, ok)

\* the autosave files _save_current_tab leaves after writing td's file
dir_after_save(td) == dir

\* _save_current_tab on td = tabs[i], which has a file_path; _write_file returns
\* (ok) or its exception ends the handler
save(i, ok) ==
  LET td == tabs[i] IN
  /\ IF ok
     THEN /\ tabs' = [tabs EXCEPT ![i] = update_tab_title(td)]
          /\ dir' = dir_after_save(td)
          /\ UNCHANGED faults
     ELSE /\ faults' = faults + 1
          /\ UNCHANGED <<tabs, dir>>
  /\ ev' = Ev("save", td.autosave_id, ok)
  /\ UNCHANGED stable

\* _save_current_tab
SaveCurrentTab ==
  /\ pc = "idle"
  /\ \E i \in 1..Len(tabs) :
       IF tabs[i].file_path # None
       THEN \E ok \in Oks : save(i, ok)
       ELSE \E path \in Paths, ok \in Oks : save_as(i, path, ok)
  /\ UNCHANGED <<pc, timers, uuids, clock, to_recover, step, confirms, closed,
                 declined, fresh>>
  /\ UNCHANGED <<failed, before>>

\* _save_current_tab_as (a cancelled dialog returns before anything changes)
SaveCurrentTabAs ==
  /\ pc = "idle"
  /\ \E i \in 1..Len(tabs), path \in Paths, ok \in Oks : save_as(i, path, ok)
  /\ UNCHANGED <<pc, timers, uuids, clock, to_recover, step, confirms, closed,
                 declined, fresh>>
  /\ UNCHANGED <<failed, before>>

\* _close_current_tab, confirmed, up to the removal of the autosave files (on No
\* nothing changes)
CloseCurrentTab ==
  /\ pc = "idle"
  /\ \E i \in 1..Len(tabs) :
       /\ Len(tabs) > 1 \/ uuids < MaxIds
       /\ dir' = remove_autosave_file(dir, tabs[i])
       /\ stable' = Without(stable, {tabs[i].autosave_id})
       /\ step' = [i |-> i, at |-> "forget"]
       /\ closed' = closed \cup {[id |-> tabs[i].autosave_id,
                                   had |-> HasPair(tabs[i].autosave_id),
                                   clock |-> clock]}
  /\ pc' = "closing"
  /\ ev' = NoEv
  /\ UNCHANGED <<tabs, timers, uuids, clock, faults, to_recover, confirms,
                 declined, fresh>>
  /\ UNCHANGED <<failed, before>>

\* self.tabs after del self.tabs[frame] of tab i
without_tab(i) == [j \in 1..(Len(tabs) - 1) |-> IF j < i THEN tabs[j] ELSE tabs[j + 1]]

\* CloseForget without the new tab for an emptied notebook
CloseForget_NoNewTab ==
  /\ pc = "closing"
  /\ tabs' = without_tab(step.i)
  /\ pc' = "idle"
  /\ step' = NoStep
  /\ ev' = NoEv
  /\ UNCHANGED <<dir, timers, uuids, clock, faults, to_recover, confirms, closed,
                 declined, fresh, stable>>
  /\ UNCHANGED <<failed, before>>

\* _close_current_tab, the rest: notebook.forget, del self.tabs[frame], and a new
\* tab when none is left
CloseForget ==
  /\ pc = "closing"
  /\ IF without_tab(step.i) = <<>>
     THEN /\ tabs' = <<create_tab("Untitled", "", None, FALSE, None)>>
          /\ uuids' = uuids + 1
     ELSE /\ tabs' = without_tab(step.i)
          /\ UNCHANGED uuids
  /\ pc' = "idle"
  /\ step' = NoStep
  /\ ev' = NoEv
  /\ UNCHANGED <<dir, timers, clock, faults, to_recover, confirms, closed, declined,
                 fresh, stable>>
  /\ UNCHANGED <<failed, before>>

\* exit_cleans with the test inverted
exit_cleans_Inverted(td) == td.file_path = None

\* the tabs whose autosave files _exit_editor removes
exit_cleans(td) == td.file_path # None

\* ExitEditor with the cleanup loop ahead of the confirmation
ExitEditor_CleansFirst ==
  /\ pc = "idle"
  /\ LET gone == {i \in 1..Len(tabs) : exit_cleans(tabs[i])} IN
       /\ dir' = Without(dir, UNION {autosave_files_of(tabs[i]) : i \in gone})
       /\ stable' = Without(stable, {tabs[i].autosave_id : i \in gone})
  /\ \E yes \in BOOLEAN :
       IF yes
       THEN /\ pc' = "exited"
            /\ timers' = 0
            /\ ev' = NoEv
       ELSE /\ ev' = Ev("exit", "", FALSE)
            /\ UNCHANGED <<pc, timers>>
  /\ UNCHANGED <<tabs, uuids, clock, faults, to_recover, step, confirms,
                 closed, declined, fresh>>
  /\ UNCHANGED <<failed, before>>

\* _exit_editor: confirmed (yes), the cleanup loop and root.destroy(), which ends
\* the process and its pending timer; declined, the handler returns
ExitEditor ==
  /\ pc = "idle"
  /\ \E yes \in BOOLEAN :
       IF yes
       THEN /\ LET gone == {i \in 1..Len(tabs) : exit_cleans(tabs[i])} IN
                 /\ dir' = Without(dir, UNION {autosave_files_of(tabs[i]) : i \in gone})
                 /\ stable' = Without(stable, {tabs[i].autosave_id : i \in gone})
            /\ pc' = "exited"
            /\ timers' = 0
            /\ ev' = NoEv
       ELSE /\ ev' = Ev("exit", "", FALSE)
            /\ UNCHANGED <<pc, dir, timers, stable>>
  /\ UNCHANGED <<tabs, uuids, clock, faults, to_recover, step, confirms,
                 closed, declined, fresh>>
  /\ UNCHANGED <<failed, before>>

(* ------------------------------ autosave ------------------------------ *)
\* the file fpath as it is in the autosave directory
found(fpath) ==
  IF fpath \in DOMAIN dir THEN [there |-> TRUE, data |-> dir[fpath].data] ELSE NoFile

\* AutosaveBegin of a fixed-rate timer: the timer stays armed when it fires
AutosaveBegin_FixedRate ==
  /\ pc = "idle"
  /\ timers > 0
  /\ clock < MaxClock
  /\ clock' = clock + 1
  /\ pc' = "autosave"
  /\ step' = [i |-> 1, at |-> "open_snap"]
  /\ fresh' = FALSE
  /\ ev' = NoEv
  /\ failed' = {}
  /\ before' = found(SnapPath(tabs[1].autosave_id))
  /\ UNCHANGED <<tabs, dir, timers, uuids, faults, to_recover, confirms, closed,
                 declined, stable>>

\* the timer fires: _autosave_all_tabs starts on list(self.tabs.values())
AutosaveBegin ==
  /\ pc = "idle"
  /\ timers > 0
  /\ clock < MaxClock
  /\ timers' = timers - 1
  /\ clock' = clock + 1
  /\ pc' = "autosave"
  /\ step' = [i |-> 1, at |-> "open_snap"]
  /\ fresh' = FALSE
  /\ ev' = NoEv
  /\ failed' = {}
  /\ before' = found(SnapPath(tabs[1].autosave_id))
  /\ UNCHANGED <<tabs, dir, uuids, faults, to_recover, confirms, closed,
                 declined, stable>>

\* meta_of taking the title from the tab whether or not td has a file_path
meta_of_TabTitle(td) ==
  [file_path |-> td.file_path,
   timestamp |-> clock,
   title |-> td.title]

\* the sidecar dict of the cycle for td
meta_of(td) ==
  [file_path |-> td.file_path,
   timestamp |-> clock,
   title |-> IF td.file_path # None THEN basename(td.file_path) ELSE td.title]

\* NextTab with a dirtiness check: it passes over the tabs that have a file_path
NextTab_SkipsSaved ==
  LET rest == {j \in (step.i + 1)..Len(tabs) : tabs[j].file_path = None} IN
  IF rest # {}
  THEN LET n == CHOOSE j \in rest : \A k \in rest : j <= k IN
       /\ step' = [i |-> n, at |-> "open_snap"]
       /\ before' = found(SnapPath(tabs[n].autosave_id))
       /\ UNCHANGED <<pc, timers>>
  ELSE /\ step' = NoStep
       /\ before' = NoFile
       /\ pc' = "idle"
       /\ timers' = timers + 1

\* the loop goes on to the next tab (also from the except branch); after the last
\* one _schedule_autosave re-arms the timer
NextTab ==
  IF step.i < Len(tabs)
  THEN /\ step' = [i |-> step.i + 1, at |-> "open_snap"]
       /\ before' = found(SnapPath(tabs[step.i + 1].autosave_id))
       /\ UNCHANGED <<pc, timers>>
  ELSE /\ step' = NoStep
       /\ before' = NoFile
       /\ pc' = "idle"
       /\ timers' = timers + 1

\* FileOp with the try around the whole loop: an exception ends the cycle
FileOp_AbortsCycle(at, ok, after, then) ==
  /\ pc = "autosave" /\ step.at = at
  /\ IF ok
     THEN /\ dir' = after
          /\ UNCHANGED faults
          /\ IF then = "" THEN NextTab
             ELSE /\ step' = [step EXCEPT !.at = then]
                  /\ UNCHANGED <<pc, timers, before>>
     ELSE /\ faults' = faults + 1
          /\ step' = NoStep
          /\ before' = NoFile
          /\ pc' = "idle"
          /\ timers' = timers + 1
          /\ UNCHANGED dir
  /\ failed' = {}
  /\ ev' = NoEv
  /\ UNCHANGED <<tabs, uuids, clock, to_recover, confirms, closed, declined, fresh>>

\* one file operation of the try block, on tab step.i: done (ok), it leaves the
\* autosave directory as after and the handler goes on to the operation then;
\* raising, it leaves the directory alone and the loop goes on to the next tab
FileOp(at, ok, after, then) ==
  /\ pc = "autosave" /\ step.at = at
  /\ IF ok
     THEN /\ dir' = after
          /\ UNCHANGED faults
          /\ IF then = "" THEN NextTab
             ELSE /\ step' = [step EXCEPT !.at = then]
                  /\ UNCHANGED <<pc, timers, before>>
     ELSE /\ faults' = faults + 1
          /\ UNCHANGED dir
          /\ NextTab
  /\ failed' = IF pc' = "idle" THEN {}
               ELSE IF ok THEN failed ELSE failed \cup {tabs[step.i].autosave_id}
  /\ ev' = NoEv
  /\ UNCHANGED <<tabs, uuids, clock, to_recover, confirms, closed, declined, fresh>>

\* open(fpath, "w") truncates the snapshot, or raises
AutosaveOpenSnapshot ==
  \E ok \in Oks :
    LET td == tabs[step.i] IN
    /\ FileOp("open_snap", ok, With(dir, SnapPath(td.autosave_id), TextFile("")), "write_snap")
    /\ stable' = IF ok THEN Without(stable, {td.autosave_id}) ELSE stable

\* f.write(content) and the close of the with block, or an exception
AutosaveWriteSnapshot ==
  \E ok \in Oks :
    LET td == tabs[step.i] IN
    /\ FileOp("write_snap", ok, With(dir, SnapPath(td.autosave_id), TextFile(td.content)), "open_meta")
    /\ UNCHANGED stable

\* open(meta_path, "w") truncates the sidecar, or raises
AutosaveOpenMeta ==
  \E ok \in Oks :
    LET td == tabs[step.i] IN
    /\ FileOp("open_meta", ok, With(dir, MetaPath(SnapPath(td.autosave_id)), TextFile("")), "write_meta")
    /\ UNCHANGED stable

\* json.dump(meta, m) and the close of the with block, or an exception
AutosaveWriteMeta ==
  \E ok \in Oks :
    LET td == tabs[step.i] IN
    /\ FileOp("write_meta", ok, With(dir, MetaPath(SnapPath(td.autosave_id)), JsonFile(meta_of(td))), "")
    /\ stable' = IF ok
                 THEN With(stable, td.autosave_id, [content |-> td.content, meta |-> meta_of(td)])
                 ELSE stable

(* ------------------------------- crash -------------------------------- *)
\* the process is killed, wherever it stands: its memory is gone, the files stay
Kill ==
  /\ Alive
  /\ pc' = "killed"
  /\ tabs' = <<>>
  /\ timers' = 0
  /\ to_recover' = <<>>
  /\ step' = NoStep
  /\ confirms' = <<>>
  /\ closed' = {}
  /\ failed' = {}
  /\ before' = NoFile
  /\ ev' = NoEv
  /\ UNCHANGED <<dir, uuids, clock, faults, declined, fresh, stable>>

Next ==
  \/ Launch
  \/ Scan
  \/ Prompt
  \/ Recover
  \/ Cleanup
  \/ NewTab
  \/ OpenInNewTab
  \/ EditText
  \/ SaveCurrentTab
  \/ SaveCurrentTabAs
  \/ CloseCurrentTab
  \/ CloseForget
  \/ ExitEditor
  \/ AutosaveBegin
  \/ AutosaveOpenSnapshot
  \/ AutosaveWriteSnapshot
  \/ AutosaveOpenMeta
  \/ AutosaveWriteMeta
  \/ Kill

Spec == Init /\ [][Next]_vars

\* a file operation of a running cycle
AutosaveStep ==
  \/ AutosaveOpenSnapshot
  \/ AutosaveWriteSnapshot
  \/ AutosaveOpenMeta
  \/ AutosaveWriteMeta

\* _autosave_all_tabs waits for nothing but its file operations: once begun, it
\* runs on unless the process is killed
LiveSpec == Spec /\ WF_vars(AutosaveStep)

(* ============================== properties ============================ *)
\* the autosave ids uuid4 can hand out within the bounds
AllIds == {uuid4(n) : n \in 1..MaxIds}

\* the snapshot files in the autosave directory
SnapshotFiles == {SnapPath(id) : id \in AllIds} \cap DOMAIN dir

\* index of the open tab with autosave id
TabOf(id) == CHOOSE i \in 1..Len(tabs) : tabs[i].autosave_id = id

(* C1: in the state right after a successful explicit save of an open document  *)
(* (Save on a document that has a file_path, or Save As to a chosen path),      *)
(* neither the snapshot nor the sidecar named by its autosave_id exists.        *)
C1_SaveRetiresSnapshot ==
  (ev.op \in {"save", "save_as"} /\ ev.ok) => ~HasPair(ev.id)

Cand == to_recover[step.i]

CandId == IdOfPath(Cand.fpath)

CandTab == tabs[Len(tabs)]

\* the sidecar of snapshot fpath is missing or does not parse
BadSidecar(fpath) ==
  MetaPath(fpath) \notin DOMAIN dir \/ dir[MetaPath(fpath)].kind # "json"

\* every candidate the recover loop is through with has no file left
RecoveredAreCleaned ==
  pc \in {"recover", "cleanup"} =>
    \A j \in 1..(step.i - 1) :
      to_recover[j].fpath \notin DOMAIN dir /\ MetaPath(to_recover[j].fpath) \notin DOMAIN dir

\* after an accepted recovery has run to its end, and until an autosave cycle
\* begins, there is no snapshot file: a startup in between finds no candidate
NothingLeftAfterRecovery ==
  fresh => SnapshotFiles = {} /\ pc # "prompt" /\ to_recover = <<>>

C5_ScanRoundTrip ==
  pc = "prompt" =>
    /\ Len(to_recover) = Cardinality(SnapshotFiles)
    /\ \A n \in SnapshotFiles :
         \E j \in 1..Len(to_recover) :
           /\ to_recover[j].fpath = n
           /\ \A k \in 1..Len(to_recover) : to_recover[k].fpath = n => k = j
           /\ to_recover[j].meta = IF BadSidecar(n)
                                   THEN [file_path |-> None, title |-> "Recovered"]
                                   ELSE dir[MetaPath(n)].obj
    /\ \A id \in DOMAIN stable :
         \E j \in 1..Len(to_recover) :
           /\ IdOfPath(to_recover[j].fpath) = id
           /\ to_recover[j].meta = stable[id].meta

\* C5 witness: the scan reports two candidates, one with the metadata a cycle
\* wrote and one with the fallback because its sidecar does not parse
C5_Witness ==
  /\ pc = "prompt"
  /\ \E j, k \in 1..Len(to_recover) :
       /\ IdOfPath(to_recover[j].fpath) \in DOMAIN stable
       /\ to_recover[j].meta.title = "Untitled"
       /\ MetaPath(to_recover[k].fpath) \in DOMAIN dir
       /\ BadSidecar(to_recover[k].fpath)
       /\ to_recover[k].meta = [file_path |-> None, title |-> "Recovered"]

(* C6: after a declined recovery every candidate file stays on disk with its    *)
(* content, through the whole session that follows and up to the next           *)
(* confirmation; no open document has a candidate's autosave_id; and the scan   *)
(* of the next startup reports each of these candidates again.                  *)
C6_DeclineLeavesFiles ==
  /\ \A n \in DOMAIN declined : n \in DOMAIN dir /\ dir[n] = declined[n]
  /\ \A n \in DOMAIN declined \cap SnapshotFiles :
       /\ IdOfPath(n) \notin OpenIds
       /\ pc = "prompt" => \E j \in 1..Len(to_recover) : to_recover[j] = candidate(n)

\* C6 witness: recovery was declined, the session that followed snapshotted a
\* document of its own and was killed, and the next scan reports the declined
\* candidate next to the new one
C6_Witness ==
  /\ pc = "prompt"
  /\ DOMAIN declined \cap SnapshotFiles # {}
  /\ Len(to_recover) > Cardinality(DOMAIN declined \cap SnapshotFiles)

(* C7: a startup issues no recovery confirmation when it finds no snapshot      *)
(* file, and exactly one, reporting the number of snapshot files, when it       *)
(* finds some; the recovery goes scan -> done, scan -> prompt -> done, or       *)
(* scan -> prompt -> (recover -> cleanup) for each candidate in turn -> done,   *)
(* and is entered only from the scan.                                           *)
C7_OneBatchPrompt ==
  [][/\ Len(confirms') <= 1
     /\ (pc = "scan" /\ pc' # "killed") =>
          /\ pc' = IF SnapshotFiles = {} THEN "idle" ELSE "prompt"
          /\ confirms' = <<>>
     /\ (pc = "prompt" /\ pc' # "killed") =>
          /\ pc' \in {"idle", "recover"}
          /\ SnapshotFiles # {}
          /\ confirms' = <<Cardinality(SnapshotFiles)>>
     /\ pc = "recover" => pc' \in {"cleanup", "killed"}
     /\ pc = "cleanup" => pc' \in {"killed", IF step.i < Len(to_recover) THEN "recover" ELSE "idle"}
     /\ pc' \in {"prompt", "recover", "cleanup"} => pc \in {"scan", "prompt", "recover", "cleanup"}
     /\ (pc # "prompt" /\ pc' \notin {"killed", "scan"}) => confirms' = confirms]_vars

\* C7 witness: a startup found two snapshot files, asked once, reporting 2, and
\* the recovery is done
C7_Witness == pc = "idle" /\ confirms = <<2>>

(* C8, as claimed: in an accepted batch a candidate whose sidecar is missing    *)
(* or does not parse is recovered as a tab titled "Recovered" with no           *)
(* file_path, and every other candidate with its own metadata, wherever the     *)
(* candidates stand in the batch.                                               *)
C8_FallbackTitledRecovered ==
  pc = "cleanup" =>
    /\ Len(tabs) = 1 + step.i
    /\ IF BadSidecar(Cand.fpath)
       THEN CandTab.title = "Recovered" /\ CandTab.file_path = None
       ELSE /\ CandTab.title = "Recovered - " \o dir[MetaPath(Cand.fpath)].obj.title
            /\ CandTab.file_path = dir[MetaPath(Cand.fpath)].obj.file_path

(* C8, as amended: such a candidate is recovered as a tab titled                *)
(* "Recovered - Recovered" (the fallback title "Recovered" behind the prefix    *)
(* every recovered tab gets) with no file_path; the rest as claimed.            *)
C8_FallbackMetadata ==
  pc = "cleanup" =>
    /\ Len(tabs) = 1 + step.i
    /\ IF BadSidecar(Cand.fpath)
       THEN CandTab.title = "Recovered - Recovered" /\ CandTab.file_path = None
       ELSE /\ CandTab.title = "Recovered - " \o dir[MetaPath(Cand.fpath)].obj.title
            /\ CandTab.file_path = dir[MetaPath(Cand.fpath)].obj.file_path

\* C8 witness: in a batch of two the first candidate had no usable sidecar and
\* became "Recovered - Recovered", and the second has just been recovered with
\* the title of its own sidecar
C8_Witness ==
  /\ pc = "cleanup" /\ step.i = 2
  /\ to_recover[1].meta = [file_path |-> None, title |-> "Recovered"]
  /\ tabs[2].title = "Recovered - Recovered"
  /\ ~BadSidecar(Cand.fpath)
  /\ CandTab.title = "Recovered - Untitled"

(* C9: in an accepted batch a candidate whose snapshot cannot be read becomes   *)
(* a tab with empty content, every candidate whose snapshot is read becomes a   *)
(* tab with that content, and the batch creates one tab per candidate.          *)
C9_ReadFailureGivesEmpty ==
  /\ pc = "recover" => Len(tabs) = step.i
  /\ pc = "cleanup" =>
       /\ Len(tabs) = 1 + step.i
       /\ CandTab.autosave_id = CandId
       /\ CandTab.content = IF ev.ok THEN dir[Cand.fpath].data ELSE ""

\* C9 witness: the read of a snapshot holding "hello" failed, its tab is empty,
\* and the batch has another candidate to go
C9_Witness ==
  /\ pc = "cleanup" /\ ~ev.ok
  /\ step.i < Len(to_recover)
  /\ dir[Cand.fpath].data = "hello"
  /\ CandTab.content = ""

(* C10: a save whose write of the user's file fails changes neither the open    *)
(* documents (file_path, content, autosave_id, title of each) nor any autosave  *)
(* file.                                                                        *)
C10_FailedSaveChangesNothing ==
  [][(ev'.op \in {"save", "save_as"} /\ ~ev'.ok /\ faults' = faults + 1) =>
       (tabs' = tabs /\ dir' = dir)]_vars

\* C10 witness: a Save As of a document that has autosave files failed, the
\* document still has no file_path and its files are still there
C10_Witness ==
  /\ ev.op = "save_as" /\ ~ev.ok
  /\ HasSnapshot(ev.id) /\ MetaPath(SnapPath(ev.id)) \in DOMAIN dir
  /\ tabs[TabOf(ev.id)].file_path = None

\* the snapshot and the sidecar of tab td hold what a cycle at the present time
\* writes for it, in the autosave directory d
Snapshotted(d, td) ==
  /\ SnapPath(td.autosave_id) \in DOMAIN d
  /\ d[SnapPath(td.autosave_id)] = TextFile(td.content)
  /\ MetaPath(SnapPath(td.autosave_id)) \in DOMAIN d
  /\ d[MetaPath(SnapPath(td.autosave_id))] = JsonFile(meta_of(td))

(* C11: an exception of a file operation of the autosave cycle changes neither  *)
(* the open documents nor any file, the cycle goes on to the next document, or  *)
(* after the last one re-arms the timer; when the cycle ends every document     *)
(* for which it caught no exception has the snapshot and the sidecar the cycle  *)
(* writes for it, and one timer is pending.                                     *)
C11_WriteFailureDiscarded ==
  [][/\ (pc = "autosave" /\ faults' = faults + 1) =>
          /\ tabs' = tabs /\ dir' = dir
          /\ IF step.i < Len(tabs)
             THEN pc' = "autosave" /\ step' = [i |-> step.i + 1, at |-> "open_snap"]
             ELSE pc' = "idle" /\ timers' = 1
     /\ (pc = "autosave" /\ pc' = "idle") =>
          /\ timers' = 1
          /\ \A j \in 1..Len(tabs) :
               (tabs[j].autosave_id \notin failed /\ ~(j = step.i /\ faults' # faults))
                 => Snapshotted(dir', tabs[j])]_vars

\* C11 witness: the cycle caught an exception for the first of three documents,
\* has written the snapshot and the sidecar of the second and is at the third
C11_Witness ==
  /\ pc = "autosave" /\ Len(tabs) = 3 /\ step.i = 3
  /\ failed = {tabs[1].autosave_id}
  /\ Snapshotted(dir, tabs[2])
  /\ ~Snapshotted(dir, tabs[1])

(* C12: the open documents do not change while a cycle runs, and a cycle that   *)
(* catches no exception leaves, for every document open at that moment, saved   *)
(* or not, edited since the last cycle or not, a snapshot named by its          *)
(* autosave_id with exactly the document's content and a sidecar with its       *)
(* file_path, its title and the time of this cycle; so no document is open at   *)
(* the end of such a cycle without a snapshot.                                  *)
C12_EveryDocumentEveryCycle ==
  [][/\ (pc = "autosave" /\ pc' # "killed") => tabs' = tabs
     /\ (pc = "autosave" /\ pc' = "idle" /\ failed = {} /\ faults' = faults) =>
          \A j \in 1..Len(tabs') :
            /\ Snapshotted(dir', tabs'[j])
            /\ dir'[MetaPath(SnapPath(tabs'[j].autosave_id))].obj.timestamp = clock']_vars

\* C12 witness: the second cycle has ended without an exception; a document with
\* a file_path and content "hello" and an untitled document that is empty both
\* have the snapshot and the sidecar of this cycle
C12_Witness ==
  /\ pc = "idle" /\ clock = 2 /\ faults = 0 /\ Len(tabs) = 2
  /\ \E i, j \in 1..2 :
       /\ tabs[i].file_path # None /\ tabs[i].content = "hello"
       /\ tabs[j].file_path = None /\ tabs[j].content = ""
  /\ \A j \in 1..2 : Snapshotted(dir, tabs[j])

\* the autosave cycles that are pending or running
Cycles == timers + (IF pc = "autosave" THEN 1 ELSE 0)

(* C13: at most one autosave cycle is pending or running, and exactly one once  *)
(* the startup is through and until the process ends; the timer is armed by a   *)
(* startup that is through and by a cycle that has got past its last document,  *)
(* and by nothing else; while a cycle runs, every step is a file operation of   *)
(* that cycle or the end of the process, and the open documents stay as they    *)
(* are; and a cycle that runs leads to the next one being scheduled, or the     *)
(* process is killed.                                                           *)
C13_SelfRescheduling ==
  /\ [](/\ Cycles <= 1
        /\ (pc \in {"idle", "closing", "autosave"} => Cycles = 1)
        /\ (pc = "autosave" => step.i \in 1..Len(tabs)))
  /\ [][/\ timers' > timers =>
              /\ pc \in {"scan", "prompt", "cleanup", "autosave"} /\ pc' = "idle"
              /\ (pc = "autosave" => step.i = Len(tabs))
        /\ pc = "autosave" =>
              /\ pc' \in {"autosave", "idle", "killed"}
              /\ (pc' # "killed" => (tabs' = tabs /\ step' # step /\ ev' = NoEv
                                       /\ clock' = clock))]_vars
  /\ (pc = "autosave" ~> (pc = "killed" \/ (pc = "idle" /\ timers = 1)))

\* C13 witness: the second cycle of a process has ended and the third is
\* scheduled
C13_Witness ==
  /\ pc = "idle" /\ timers = 1 /\ clock = 2
  /\ \A i \in 1..Len(tabs) :
       /\ tabs[i].autosave_id \in DOMAIN stable
       /\ stable[tabs[i].autosave_id].meta.timestamp = 2
  /\ \E r \in closed : r.clock = 1 /\ r.had

(* C14: at every point of an autosave cycle, each of which may be the point     *)
(* where the process is killed, the snapshot file of the document the cycle is  *)
(* at holds either the complete content the cycle found in it or the complete   *)
(* content of the document, and the snapshot of every other document is what    *)
(* it was; so no snapshot is ever left truncated or half written.               *)
C14_SnapshotWritesAtomic ==
  pc = "autosave" =>
    LET td == tabs[step.i]
        n  == SnapPath(td.autosave_id)
    IN  IF n \in DOMAIN dir
        THEN dir[n].data = td.content \/ (before.there /\ dir[n].data = before.data)
        ELSE ~before.there

IsRecovered(td) == startswith(td.title, "Recovered - ")

\* the files of the autosave directory that a step creates, rewrites or removes
Touched == {n \in DOMAIN dir \cup DOMAIN dir' :
              ~(n \in DOMAIN dir /\ n \in DOMAIN dir' /\ dir'[n] = dir[n])}

(* C16: the tab the recovery creates for a candidate has the autosave_id of     *)
(* the candidate's file name, so that its snapshot and sidecar names are the    *)
(* candidate's; a cycle touches, for the document it is at, only the files of   *)
(* these names; and a successful save (Save or Save As), a confirmed close,     *)
(* and a confirmed Exit when it has a file_path, of a recovered document        *)
(* remove exactly the files of these names.                                     *)
C16_RecoveredRebindsSlot ==
  [][/\ (pc = "recover" /\ pc' = "cleanup") =>
          /\ tabs'[Len(tabs')].autosave_id = IdOfPath(to_recover[step.i].fpath)
          /\ autosave_files_of(tabs'[Len(tabs')])
               = {to_recover[step.i].fpath, MetaPath(to_recover[step.i].fpath)}
     /\ (pc = "autosave" /\ pc' # "killed") =>
          Touched \subseteq autosave_files_of(tabs[step.i])
     /\ \A i \in 1..Len(tabs) :
          IsRecovered(tabs[i]) =>
            /\ (ev'.op \in {"save", "save_as"} /\ ev'.ok /\ ev'.id = tabs[i].autosave_id) =>
                 DOMAIN dir' = DOMAIN dir \ autosave_files_of(tabs[i])
            /\ (pc = "idle" /\ pc' = "closing" /\ step'.i = i) =>
                 DOMAIN dir' = DOMAIN dir \ autosave_files_of(tabs[i])
            /\ (pc = "idle" /\ pc' = "exited" /\ tabs[i].file_path # None) =>
                 autosave_files_of(tabs[i]) \cap DOMAIN dir' = {}]_vars

\* the positions of _recover_autosaves_on_startup
Recovering == pc \in {"scan", "prompt", "recover", "cleanup"}

(* C17: the recovery is entered only by the start of a process, and only once   *)
(* per process; while it is in progress no timer is pending, no cycle runs, no  *)
(* file of the autosave directory is created or rewritten, and the clock of    *)
(* cycles stands; the timer is first armed by the step that ends the recovery;  *)
(* files are created or rewritten only by a running cycle, which comes after    *)
(* it; and no file the scan finds is named by the autosave_id of a document of  *)
(* the process that scans.                                                      *)
C17_RecoveryBeforeAutosave ==
  /\ [](/\ Recovering => (timers = 0 /\ step.at \in {"", "read"})
        /\ pc \in {"scan", "prompt"} => (\A id \in OpenIds : ~HasPair(id))
        /\ pc = "prompt" =>
             (\A j \in 1..Len(to_recover) : IdOfPath(to_recover[j].fpath) \notin OpenIds))
  /\ [][/\ pc' = "scan" => (~Alive /\ pc # "scan")
        /\ (Recovering' /\ pc' # "scan") => Recovering
        /\ Recovering =>
             /\ pc' = "killed" \/ Recovering' \/ (pc' = "idle" /\ timers' = 1)
             /\ clock' = clock
             /\ DOMAIN dir' \subseteq DOMAIN dir
             /\ \A n \in DOMAIN dir' : dir'[n] = dir[n]
        /\ (\E n \in DOMAIN dir' : n \notin DOMAIN dir \/ dir'[n] # dir[n]) =>
             (pc = "autosave" /\ ~Recovering')]_vars

\* C17 witness: a process that found two snapshot files of a killed one has
\* recovered the first and is through with reading the second; no timer is
\* pending
C17_Witness ==
  /\ pc = "cleanup" /\ step.i = 2 /\ Len(to_recover) = 2 /\ Len(tabs) = 3
  /\ timers = 0 /\ clock >= 1
  /\ to_recover[2].fpath \in DOMAIN dir /\ to_recover[1].fpath \notin DOMAIN dir

(* C18: the open documents have pairwise distinct autosave_ids, also next to    *)
(* the orphans a declined recovery left, whose ids no open document has; so no  *)
(* file is the snapshot or the sidecar of two open documents.  Every file of    *)
(* the autosave directory is the snapshot or the sidecar of one autosave_id,    *)
(* and a step of a cycle creates or rewrites only the two files of the          *)
(* document it is at: it overwrites the pair and adds no other file.            *)
C18_DistinctAutosaveIds ==
  /\ [](/\ \A i, j \in 1..Len(tabs) :
             i # j => /\ tabs[i].autosave_id # tabs[j].autosave_id
                      /\ autosave_files_of(tabs[i]) \cap autosave_files_of(tabs[j]) = {}
        /\ \A n \in DOMAIN declined : \A i \in 1..Len(tabs) : n \notin autosave_files_of(tabs[i])
        /\ \A n \in DOMAIN dir :
             \E id \in AllIds :
               /\ n \in {SnapPath(id), MetaPath(SnapPath(id))}
               /\ \A id2 \in AllIds : n \in {SnapPath(id2), MetaPath(SnapPath(id2))} => id2 = id)
  /\ [][(pc = "autosave" /\ pc' # "killed") =>
           /\ DOMAIN dir \subseteq DOMAIN dir'
           /\ DOMAIN dir' \subseteq DOMAIN dir \cup autosave_files_of(tabs[step.i])
           /\ \A n \in DOMAIN dir : n \notin autosave_files_of(tabs[step.i]) => dir'[n] = dir[n]]_vars

\* C18 witness: next to the orphan pair a declined recovery left, two open
\* documents have been snapshotted by a cycle: three pairs, three ids
C18_Witness ==
  /\ pc = "idle" /\ Len(tabs) = 2
  /\ DOMAIN declined # {} /\ DOMAIN declined \subseteq DOMAIN dir
  /\ \A i \in 1..2 : tabs[i].autosave_id \in DOMAIN stable
  /\ Cardinality(DOMAIN dir) = 6

\* td is what _create_tab() makes with its defaults
IsNewUntitled(td) == td.title = "Untitled" /\ td.content = "" /\ td.file_path = None

(* C19: a running editor has at least one open document in every state, from    *)
(* the start on: the scan finds exactly one, new and untitled; a recovery that  *)
(* was accepted ends with one document more than it had candidates; a           *)
(* confirmed close of one of several documents leaves the others; and a         *)
(* confirmed close of the only document leaves exactly one, new and untitled,   *)
(* with an autosave_id that is not the closed one's, nor that of any document   *)
(* closed before, and that names no file.                                       *)
C19_NeverWithoutDocument ==
  /\ [](/\ Alive => Len(tabs) >= 1
        /\ pc = "scan" => (Len(tabs) = 1 /\ IsNewUntitled(tabs[1])))
  /\ [][/\ (pc = "cleanup" /\ pc' = "idle") => Len(tabs') = Len(to_recover) + 1
        /\ (pc = "closing" /\ pc' = "idle" /\ Len(tabs) > 1) =>
             (Len(tabs') = Len(tabs) - 1 /\ tabs' = without_tab(step.i))
        /\ (pc = "closing" /\ pc' = "idle" /\ Len(tabs) = 1) =>
             /\ Len(tabs') = 1 /\ IsNewUntitled(tabs'[1])
             /\ tabs'[1].autosave_id # tabs[1].autosave_id
             /\ \A r \in closed : r.id # tabs'[1].autosave_id
             /\ autosave_files_of(tabs'[1]) \cap DOMAIN dir' = {}]_vars

\* C19 witness: the first process closed the one document it started with and
\* has one new untitled document with the second autosave_id
C19_Witness ==
  /\ pc = "idle" /\ clock = 0 /\ uuids = 2
  /\ closed # {}
  /\ Len(tabs) = 1 /\ IsNewUntitled(tabs[1]) /\ tabs[1].autosave_id = uuid4(2)

\* how many times "Recovered - " stands at the head of title t
RECURSIVE Prefixes(_)
Prefixes(t) ==
  IF startswith(t, "Recovered - ")
  THEN 1 + Prefixes(SubSeq(t, Len("Recovered - ") + 1, Len(t)))
  ELSE 0

(* C20: the title a cycle writes into the sidecar of a document is the          *)
(* basename of its file_path when it has one and its tab title otherwise; the   *)
(* tab of a recovered candidate is titled "Recovered - " followed by the        *)
(* sidecar's title, so a candidate with no file_path gets one prefix more than  *)
(* the tab title it was snapshotted with, one per generation of cycle, kill     *)
(* and accepted recovery, and never more prefixes than cycles have run, while   *)
(* a candidate with a file_path gets "Recovered - " and the basename, and a     *)
(* document with a file_path never has more than this one prefix.               *)
C20_TitlePrefixes ==
  /\ [](\A i \in 1..Len(tabs) :
          /\ Prefixes(tabs[i].title) <= clock
          /\ tabs[i].file_path # None =>
               tabs[i].title \in {basename(tabs[i].file_path),
                                  "Recovered - " \o basename(tabs[i].file_path)})
  /\ [][/\ (pc = "autosave" /\ step.at = "write_meta" /\ pc' # "killed" /\ faults' = faults) =>
             LET td == tabs[step.i] IN
             dir'[MetaPath(SnapPath(td.autosave_id))].obj.title
               = IF td.file_path = None THEN td.title ELSE basename(td.file_path)
        /\ (pc = "recover" /\ pc' = "cleanup") =>
             LET c == to_recover[step.i]
                 t == tabs'[Len(tabs')]
             IN  /\ t.title = "Recovered - " \o c.meta.title
                 /\ Prefixes(t.title) = Prefixes(c.meta.title) + 1
                 /\ c.meta.file_path # None =>
                      (t.title = "Recovered - " \o basename(c.meta.file_path)
                       /\ Prefixes(t.title) = 1)
                 /\ (c.meta.file_path = None /\ IdOfPath(c.fpath) \in DOMAIN stable) =>
                      Prefixes(t.title) = Prefixes(stable[IdOfPath(c.fpath)].meta.title) + 1]_vars

\* C20 witness: in its third process the editor has an untitled document of the
\* first process, recovered twice, with two prefixes, next to a document with
\* a file_path that has one
C20_Witness ==
  /\ pc = "idle" /\ Len(tabs) = 3
  /\ \E i, j \in 1..3 :
       /\ tabs[i].title = "Recovered - Recovered - Untitled" /\ tabs[i].file_path = None
       /\ Prefixes(tabs[i].title) = 2
       /\ tabs[j].title = "Recovered - a.txt" /\ tabs[j].file_path = "/docs/a.txt"
       /\ Prefixes(tabs[j].title) = 1

====
